---- MODULE Spec2Model ----
(***************************************************************************)
(* ecommerce-catalog-service: the Attribute, Category and Product          *)
(* aggregates, and the Create/Update command handlers that validate        *)
(* references, check the optimistic-concurrency version and persist the    *)
(* aggregate together with an outbox row inside one transaction.           *)
(***************************************************************************)
EXTENDS Integers, Sequences, FiniteSets, TLC

(***************************************************************************)
(* Bounds of the model.                                                    *)
(***************************************************************************)
\* number of handler invocations that may run concurrently
NumProcs == 2
\* number of commands started in one behaviour
MaxCmds == 3

(***************************************************************************)
(* Values.                                                                 *)
(***************************************************************************)
\* a nil pointer (*string, *uuid.UUID) and an absent document
Null == "null"

\* error values: the sentinel errors.Is finds, and the message text
NoErr == [sentinel |-> "nil", msg |-> ""]
Err(sentinel, msg) == [sentinel |-> sentinel, msg |-> msg]
\* fmt.Errorf(prefix + ": %w", err): the sentinel survives the wrapping
Wrap(prefix, err) == [sentinel |-> err.sentinel, msg |-> prefix \o ": " \o err.msg]

ErrEntityNotFound == Err("ErrEntityNotFound", "entity not found")
ErrOptimisticLocking == Err("ErrOptimisticLocking", "optimistic locking error")
ErrCategoryNotFound == Err("ErrCategoryNotFound", "category not found")
ErrSlugAlreadyExists == Err("ErrSlugAlreadyExists", "attribute with this slug already exists")
\* errors of the collaborators that carry no sentinel of this service
ErrDatabase == Err("", "database error")
ErrDuplicateKey == Err("", "duplicate key")
ErrOutbox == Err("", "outbox error")
ErrSend == Err("", "send error")

InvalidProduct(msg) == Err("ErrInvalidProductData", "invalid product data: " \o msg)
InvalidAttribute(msg) == Err("ErrInvalidAttributeData", "invalid attribute data: " \o msg)
InvalidCategory(msg) == Err("ErrInvalidCategoryData", "invalid category data: " \o msg)

\* a (value, error) pair as Go functions return it: val is <<v>>, or <<>> for nil
Ok(v) == [val |-> <<v>>, err |-> NoErr]
Fail(e) == [val |-> <<>>, err |-> e]
\* what a mutator leaves: the aggregate after the call and the error returned
Left(agg, e) == [agg |-> agg, err |-> e]

(***************************************************************************)
(* Product aggregate.                                                      *)
(***************************************************************************)
MaxProductName == 255

validateProductData(name, price, quantity) ==
    IF name = "" THEN InvalidProduct("name is required")
    ELSE IF Len(name) > MaxProductName THEN InvalidProduct("name is too long (max 255 characters)")
    ELSE IF price < 0 THEN InvalidProduct("price must be positive")
    ELSE IF quantity < 0 THEN InvalidProduct("quantity cannot be negative")
    ELSE NoErr

\* a validateEnabledState that compares with < where the code compares with <=
validateEnabledStateAllowsZero(enabled, price, quantity, imageID, categoryID) ==
    IF ~enabled THEN NoErr
    ELSE IF price < 0 THEN InvalidProduct("cannot enable product with price <= 0")
    ELSE IF quantity < 0 THEN InvalidProduct("cannot enable product with quantity <= 0")
    ELSE IF imageID = Null THEN InvalidProduct("cannot enable product without imageID")
    ELSE IF categoryID = Null THEN InvalidProduct("cannot enable product without categoryID")
    ELSE NoErr

validateEnabledState(enabled, price, quantity, imageID, categoryID) ==
    IF ~enabled THEN NoErr
    ELSE IF price <= 0 THEN InvalidProduct("cannot enable product with price <= 0")
    ELSE IF quantity <= 0 THEN InvalidProduct("cannot enable product with quantity <= 0")
    ELSE IF imageID = Null THEN InvalidProduct("cannot enable product without imageID")
    ELSE IF categoryID = Null THEN InvalidProduct("cannot enable product without categoryID")
    ELSE NoErr

\* the two validations with validateEnabledState run first
validateProductEnabledFirst(in) ==
    LET e1 == validateEnabledState(in.Enabled, in.Price, in.Quantity, in.ImageID, in.CategoryID)
    IN  IF e1 # NoErr THEN e1
        ELSE validateProductData(in.Name, in.Price, in.Quantity)

\* the two validations in the order NewProduct, NewProductWithID and Update run them
validateProduct(in) ==
    LET e1 == validateProductData(in.Name, in.Price, in.Quantity)
    IN  IF e1 # NoErr THEN e1
        ELSE validateEnabledState(in.Enabled, in.Price, in.Quantity, in.ImageID, in.CategoryID)

\* in: the arguments name .. attributes; now: time.Now().UTC()
NewProductWithID(id, in, now) ==
    LET e == validateProduct(in)
    IN  IF e # NoErr THEN Fail(e)
        ELSE Ok([ID |-> id, Version |-> 1, Name |-> in.Name, Description |-> in.Description,
                 Price |-> in.Price, Quantity |-> in.Quantity, ImageID |-> in.ImageID,
                 CategoryID |-> in.CategoryID, Enabled |-> in.Enabled,
                 Attributes |-> in.Attributes, CreatedAt |-> now, ModifiedAt |-> now])

\* Reconstruct: a product rebuilt from persistence, no validation
ProductReconstruct(id, version, in, createdAt, modifiedAt) ==
    [ID |-> id, Version |-> version, Name |-> in.Name, Description |-> in.Description,
     Price |-> in.Price, Quantity |-> in.Quantity, ImageID |-> in.ImageID,
     CategoryID |-> in.CategoryID, Enabled |-> in.Enabled, Attributes |-> in.Attributes,
     CreatedAt |-> createdAt, ModifiedAt |-> modifiedAt]

\* NewProduct: as NewProductWithID with ID = uuid.New().String(), here `fresh`
NewProduct(fresh, in, now) == NewProductWithID(fresh, in, now)

\* a Product.Update that stamps ModifiedAt before it validates
ProductUpdateStampsFirst(p, in, now) ==
    LET e == validateProduct(in)
    IN  IF e # NoErr THEN Left([p EXCEPT !.ModifiedAt = now], e)
        ELSE Left([p EXCEPT !.Name = in.Name, !.Description = in.Description,
                          !.Price = in.Price, !.Quantity = in.Quantity,
                          !.ImageID = in.ImageID, !.CategoryID = in.CategoryID,
                          !.Enabled = in.Enabled, !.Attributes = in.Attributes,
                          !.ModifiedAt = now], NoErr)

\* Product.Update: val is the product after the call, err what it returns
ProductUpdate(p, in, now) ==
    LET e == validateProduct(in)
    IN  IF e # NoErr THEN Left(p, e)
        ELSE Left([p EXCEPT !.Name = in.Name, !.Description = in.Description,
                          !.Price = in.Price, !.Quantity = in.Quantity,
                          !.ImageID = in.ImageID, !.CategoryID = in.CategoryID,
                          !.Enabled = in.Enabled, !.Attributes = in.Attributes,
                          !.ModifiedAt = now], NoErr)

(***************************************************************************)
(* Attribute aggregate.                                                    *)
(***************************************************************************)
MaxAttributeName == 100
MaxSlug == 50

AttributeTypes == {"single", "multiple", "range", "boolean", "text"}
isValidAttributeType(t) == t \in AttributeTypes

\* slugs are sequences of characters; slugRegex is ^[a-z0-9]+(?:-[a-z0-9]+)*$
SlugChars == {"a", "b", "c", "r", "e", "d", "s", "0", "1", "2"}
RECURSIVE SlugTail(_, _)
\* s[i..] matches ([a-z0-9]+(-[a-z0-9]+)*)$ given that s[i-1] was a slug character
\* (afterChar) or a hyphen
SlugTail(s, afterChar) ==
    IF s = <<>> THEN afterChar
    ELSE IF Head(s) \in SlugChars THEN SlugTail(Tail(s), TRUE)
    ELSE IF Head(s) = "-" THEN afterChar /\ SlugTail(Tail(s), FALSE)
    ELSE FALSE
slugRegexMatch(s) == s # <<>> /\ Head(s) \in SlugChars /\ SlugTail(s, FALSE)

validateAttributeData(name, slug, attrType) ==
    IF name = "" THEN InvalidAttribute("name is required")
    ELSE IF Len(name) > MaxAttributeName THEN InvalidAttribute("name is too long (max 100 characters)")
    ELSE IF slug = <<>> THEN InvalidAttribute("slug is required")
    ELSE IF Len(slug) > MaxSlug THEN InvalidAttribute("slug is too long (max 50 characters)")
    ELSE IF ~slugRegexMatch(slug) THEN InvalidAttribute("slug must contain only lowercase letters, numbers, and hyphens")
    ELSE IF ~isValidAttributeType(attrType) THEN InvalidAttribute("invalid attribute type")
    ELSE NoErr

\* a slug as the string %s prints
RECURSIVE SlugString(_)
SlugString(s) == IF s = <<>> THEN "" ELSE Head(s) \o SlugString(Tail(s))

\* the checks of one option without the look-up in the slugs seen so far
validateOptionIgnoresDuplicates(opt, slugs) ==
    IF opt.Name = "" THEN InvalidAttribute("option name is required")
    ELSE IF Len(opt.Name) > MaxAttributeName THEN InvalidAttribute("option name is too long (max 100 characters)")
    ELSE IF opt.Slug = <<>> THEN InvalidAttribute("option slug is required")
    ELSE IF Len(opt.Slug) > MaxSlug THEN InvalidAttribute("option slug is too long (max 50 characters)")
    ELSE IF ~slugRegexMatch(opt.Slug) THEN InvalidAttribute("option slug must contain only lowercase letters, numbers, and hyphens")
    ELSE IF opt.SortOrder < 0 THEN InvalidAttribute("option sortOrder cannot be negative")
    ELSE NoErr

\* the checks of one option, given the slugs of the options before it
validateOption(opt, slugs) ==
    IF opt.Name = "" THEN InvalidAttribute("option name is required")
    ELSE IF Len(opt.Name) > MaxAttributeName THEN InvalidAttribute("option name is too long (max 100 characters)")
    ELSE IF opt.Slug = <<>> THEN InvalidAttribute("option slug is required")
    ELSE IF Len(opt.Slug) > MaxSlug THEN InvalidAttribute("option slug is too long (max 50 characters)")
    ELSE IF ~slugRegexMatch(opt.Slug) THEN InvalidAttribute("option slug must contain only lowercase letters, numbers, and hyphens")
    ELSE IF opt.Slug \in slugs
        THEN InvalidAttribute("duplicate option slug: " \o SlugString(opt.Slug))
    ELSE IF opt.SortOrder < 0 THEN InvalidAttribute("option sortOrder cannot be negative")
    ELSE NoErr

RECURSIVE validateOptionsFrom(_, _)
validateOptionsFrom(options, slugs) ==
    IF options = <<>> THEN NoErr
    ELSE LET e == validateOption(Head(options), slugs)
         IN  IF e # NoErr THEN e
             ELSE validateOptionsFrom(Tail(options), slugs \cup {Head(options).Slug})

validateOptions(options) == validateOptionsFrom(options, {})

\* a NewAttribute that leaves Version at the zero value of int
NewAttributeAtVersionZero(id, fresh, in, now) ==
    LET e1 == validateAttributeData(in.Name, in.Slug, in.Type)
        e2 == validateOptions(in.Options)
    IN  IF e1 # NoErr THEN Fail(e1)
        ELSE IF e2 # NoErr THEN Fail(e2)
        ELSE Ok([ID |-> IF id = "" THEN fresh ELSE id, Version |-> 0, Name |-> in.Name,
                 Slug |-> in.Slug, Type |-> in.Type, Unit |-> in.Unit,
                 Enabled |-> in.Enabled, Options |-> in.Options,
                 CreatedAt |-> now, ModifiedAt |-> now])

\* id = "" asks for a generated one, here `fresh`
NewAttribute(id, fresh, in, now) ==
    LET e1 == validateAttributeData(in.Name, in.Slug, in.Type)
        e2 == validateOptions(in.Options)
    IN  IF e1 # NoErr THEN Fail(e1)
        ELSE IF e2 # NoErr THEN Fail(e2)
        ELSE Ok([ID |-> IF id = "" THEN fresh ELSE id, Version |-> 1, Name |-> in.Name,
                 Slug |-> in.Slug, Type |-> in.Type, Unit |-> in.Unit,
                 Enabled |-> in.Enabled, Options |-> in.Options,
                 CreatedAt |-> now, ModifiedAt |-> now])

\* attribute.Reconstruct: an attribute rebuilt from persistence, no validation
AttributeReconstruct(id, version, in, createdAt, modifiedAt) ==
    [ID |-> id, Version |-> version, Name |-> in.Name, Slug |-> in.Slug, Type |-> in.Type,
     Unit |-> in.Unit, Enabled |-> in.Enabled, Options |-> in.Options,
     CreatedAt |-> createdAt, ModifiedAt |-> modifiedAt]

\* an Attribute.Update that derives the Type from the options it is given
AttributeUpdateSetsType(a, in, now) ==
    IF in.Name = "" THEN Left(a, InvalidAttribute("name is required"))
    ELSE IF Len(in.Name) > MaxAttributeName
        THEN Left(a, InvalidAttribute("name is too long (max 100 characters)"))
    ELSE IF validateOptions(in.Options) # NoErr THEN Left(a, validateOptions(in.Options))
    ELSE Left([a EXCEPT !.Name = in.Name, !.Unit = in.Unit, !.Enabled = in.Enabled,
                        !.Options = in.Options, !.ModifiedAt = now,
                        !.Type = IF in.Options = <<>> THEN "text" ELSE "single"], NoErr)

\* Attribute.Update(name, unit, enabled, options)
AttributeUpdate(a, in, now) ==
    IF in.Name = "" THEN Left(a, InvalidAttribute("name is required"))
    ELSE IF Len(in.Name) > MaxAttributeName
        THEN Left(a, InvalidAttribute("name is too long (max 100 characters)"))
    ELSE IF validateOptions(in.Options) # NoErr THEN Left(a, validateOptions(in.Options))
    ELSE Left([a EXCEPT !.Name = in.Name, !.Unit = in.Unit, !.Enabled = in.Enabled,
                        !.Options = in.Options, !.ModifiedAt = now], NoErr)

(***************************************************************************)
(* Category aggregate.                                                     *)
(***************************************************************************)
MaxCategoryName == 255

validateCategoryData(name) ==
    IF name = "" THEN InvalidCategory("name is required")
    ELSE IF Len(name) > MaxCategoryName THEN InvalidCategory("name is too long (max 255 characters)")
    ELSE NoErr

NewCategoryWithID(id, in, now) ==
    LET e == validateCategoryData(in.Name)
    IN  IF e # NoErr THEN Fail(e)
        ELSE Ok([ID |-> id, Version |-> 1, Name |-> in.Name, Enabled |-> in.Enabled,
                 Attributes |-> in.Attributes, CreatedAt |-> now, ModifiedAt |-> now])

NewCategory(fresh, in, now) == NewCategoryWithID(fresh, in, now)

\* a Category.Update that also calls IncrementVersion
CategoryUpdateIncrementsVersion(c, in, now) ==
    LET e == validateCategoryData(in.Name)
    IN  IF e # NoErr THEN Left(c, e)
        ELSE Left([c EXCEPT !.Name = in.Name, !.Enabled = in.Enabled,
                            !.Attributes = in.Attributes, !.ModifiedAt = now,
                            !.Version = c.Version + 1], NoErr)

\* Category.Update
CategoryUpdate(c, in, now) ==
    LET e == validateCategoryData(in.Name)
    IN  IF e # NoErr THEN Left(c, e)
        ELSE Left([c EXCEPT !.Name = in.Name, !.Enabled = in.Enabled,
                            !.Attributes = in.Attributes, !.ModifiedAt = now], NoErr)

\* Category.ChangeName
CategoryChangeName(c, newName, now) ==
    LET e == validateCategoryData(newName)
    IN  IF e # NoErr THEN Left(c, e)
        ELSE Left([c EXCEPT !.Name = newName, !.ModifiedAt = now], NoErr)

\* a Category.Enable that also calls IncrementVersion
CategoryEnableIncrementsVersion(c, now) ==
    [c EXCEPT !.Enabled = TRUE, !.ModifiedAt = now, !.Version = c.Version + 1]

\* Category.Enable and Category.Disable return nothing
CategoryEnable(c, now) == [c EXCEPT !.Enabled = TRUE, !.ModifiedAt = now]
CategoryDisable(c, now) == [c EXCEPT !.Enabled = FALSE, !.ModifiedAt = now]

\* Category.IncrementVersion
CategoryIncrementVersion(c) == [c EXCEPT !.Version = c.Version + 1]

(***************************************************************************)
(* State.                                                                  *)
(***************************************************************************)
VARIABLES
    db,        \* db[kind]: the committed documents of a collection, by ID
    outbox,    \* the committed outbox rows, in commit order
    h,         \* h[p]: handler invocation p (position, command, locals, transaction)
    started,   \* commands started so far; the clock time.Now() reads
    subject    \* the aggregate a caller of the domain package holds, and its last call

vars == <<db, outbox, h, started, subject>>

Procs == 1 .. NumProcs
Kinds == {"attribute", "category", "product"}

\* a transaction that is not open
NoTx == [open |-> FALSE, writes |-> <<>>, rows |-> <<>>]
\* a handler invocation that has not been given a command
Idle == [pc |-> "idle", no |-> 0, cmd |-> <<>>, agg |-> <<>>, refs |-> {}, msg |-> <<>>,
         tx |-> NoTx, res |-> <<>>, calls |-> {}, faults |-> {}, base |-> 0,
         committed |-> FALSE, sends |-> 0, cancelled |-> "no"]

\* a caller of the domain package that holds no aggregate yet
\* kind: the package called; options: the option list an attribute call was given
NoSubject == [kind |-> "none", op |-> "none", agg |-> <<>>, err |-> NoErr, options |-> <<>>]

\* uuid.New().String() of the command numbered n
GenID(n) == "g" \o ToString(n)

(***************************************************************************)
(* Repositories.                                                           *)
(***************************************************************************)
\* GenericRepository.FindByID: the committed document or ErrEntityNotFound
FindByID(kind, id) ==
    IF id \in DOMAIN db[kind] THEN Ok(db[kind][id]) ELSE Fail(ErrEntityNotFound)

\* GenericRepository.Exists
Exists(kind, id) == id \in DOMAIN db[kind]

\* attributeRepository.FindByIDs: the documents whose _id is $in ids
FindByIDs(ids) ==
    IF Len(ids) = 0 THEN {}
    ELSE {db["attribute"][id] : id \in {ids[i] : i \in 1 .. Len(ids)} \cap DOMAIN db["attribute"]}

\* lo.Find(ids, not found): the first element of ids outside found, "" if none
RECURSIVE FirstMissing(_, _)
FirstMissing(ids, found) ==
    IF ids = <<>> THEN ""
    ELSE IF Head(ids) \notin found THEN Head(ids)
    ELSE FirstMissing(Tail(ids), found)

\* attributeRepository.FindByIDsOrFail: val is the set of attributes found
FindByIDsOrFail(ids) ==
    LET attrs == FindByIDs(ids)
    IN  IF Cardinality(attrs) # Len(ids)
        THEN [val |-> {}, err |-> Err("", "attribute not found: "
                                          \o FirstMissing(ids, {a.ID : a \in attrs}))]
        ELSE [val |-> attrs, err |-> NoErr]

\* the write another open transaction holds on the document (or, for an attribute,
\* on the unique slug): the store makes the writer wait until that transaction ends
WriteLocked(p, kind, doc) ==
    \E q \in Procs \ {p} :
        /\ h[q].tx.writes # <<>>
        /\ h[q].tx.writes[1].kind = kind
        /\ \/ h[q].tx.writes[1].doc.ID = doc.ID
           \/ kind = "attribute" /\ h[q].tx.writes[1].doc.Slug = doc.Slug

\* GenericRepository.Insert: a duplicate key error on the _id index or, for the
\* attribute collection, on the unique slug index
GenericInsert(kind, doc) ==
    IF doc.ID \in DOMAIN db[kind] THEN ErrDuplicateKey
    ELSE IF kind = "attribute" /\ \E id \in DOMAIN db[kind] : db[kind][id].Slug = doc.Slug
        THEN ErrDuplicateKey
    ELSE NoErr

\* an attributeRepository.Insert that returns the error of the driver as it is
AttributeInsertUnmapped(doc) == GenericInsert("attribute", doc)

\* attributeRepository.Insert: every duplicate key error becomes ErrSlugAlreadyExists
AttributeInsert(doc) ==
    LET err == GenericInsert("attribute", doc)
    IN  IF err = ErrDuplicateKey THEN ErrSlugAlreadyExists ELSE err

Insert(kind, doc) ==
    IF kind = "attribute" THEN AttributeInsert(doc) ELSE GenericInsert(kind, doc)

\* GenericRepository.Update: the write conditioned on the version the aggregate
\* carries; the stored version becomes that version plus one
GenericUpdate(kind, doc) ==
    IF doc.ID \in DOMAIN db[kind] /\ db[kind][doc.ID].Version = doc.Version
    THEN Ok([doc EXCEPT !.Version = doc.Version + 1])
    ELSE Fail(ErrOptimisticLocking)

(***************************************************************************)
(* Event factories.                                                        *)
(***************************************************************************)
\* NewProductUpdatedOutboxMessage, NewCategoryCreatedOutboxMessage, ...: the
\* payload copies the aggregate's fields, the key is the aggregate's ID
NewOutboxMessage(eventType, a) == [Key |-> a.ID, EventType |-> eventType, Payload |-> a]

CreatedEventType(kind) ==
    CASE kind = "product" -> "ProductUpdated"
      [] kind = "category" -> "CategoryCreated"
      [] kind = "attribute" -> "AttributeUpdated"

UpdatedEventType(kind) ==
    CASE kind = "product" -> "ProductUpdated"
      [] kind = "category" -> "CategoryUpdated"
      [] kind = "attribute" -> "AttributeUpdated"

(***************************************************************************)
(* Command handlers: the steps between two accesses to the store.          *)
(***************************************************************************)
\* history of an invocation: the collaborator calls it made, and those that failed
\* for a reason of the collaborator's own (the database, the outbox)
Called(l, names) == [l EXCEPT !.calls = l.calls \cup names]
Faulted(l, fault, name) == IF fault THEN [l EXCEPT !.faults = l.faults \cup {name}] ELSE l
\* WithTransaction committed the invocation's writes
Committed(l, ok) == [l EXCEPT !.committed = ok]
\* the deferred send function has been invoked once more
Sent(l) == [l EXCEPT !.sends = l.sends + 1]

\* the request context is cancelled: "early" before the commit, "late" after it
Cancelled(l) == [l EXCEPT !.cancelled = IF l.committed THEN "late" ELSE "early"]
\* ctx.Err() # nil for the context Handle was given
RequestContext(l) == l.cancelled # "no"
\* a handler that runs its transaction on context.Background()
TransactionContextBackground(l) == FALSE
\* the context persistAndPublish hands to WithTransaction: the request's
TransactionContext(l) == RequestContext(l)
\* whether a collaborator called with a context fails: always when it is cancelled
Outcomes(cancelledContext) == IF cancelledContext THEN {TRUE} ELSE BOOLEAN

\* return (nil, err) or (aggregate, nil) to the caller; a transaction still open
\* is rolled back, its writes discarded
Finish(l, res) == [l EXCEPT !.pc = "done", !.res = <<res>>, !.tx = NoTx]

\* lo.Map(productAttrs / cmd.Attributes, AttributeID)
AttributeIDsOf(attributes) == [i \in 1 .. Len(attributes) |-> attributes[i].AttributeID]

\* createCategoryHandler.Handle: the CategoryAttributes of the inputs (Slug not set)
CreateCategoryAttributes(inputs) ==
    [i \in 1 .. Len(inputs) |->
        [AttributeID |-> inputs[i].AttributeID, Slug |-> <<>>, Role |-> inputs[i].Role,
         Required |-> inputs[i].Required, SortOrder |-> inputs[i].SortOrder,
         Filterable |-> inputs[i].Filterable, Searchable |-> inputs[i].Searchable]]

\* updateCategoryHandler.buildCategoryAttributes, after FindByIDsOrFail found attrs
buildCategoryAttributes(inputs, attrs) ==
    [i \in 1 .. Len(inputs) |->
        [AttributeID |-> inputs[i].AttributeID,
         Slug |-> IF \E a \in attrs : a.ID = inputs[i].AttributeID
                  THEN (CHOOSE a \in attrs : a.ID = inputs[i].AttributeID).Slug
                  ELSE <<>>,
         Role |-> inputs[i].Role, Required |-> inputs[i].Required,
         SortOrder |-> inputs[i].SortOrder, Filterable |-> inputs[i].Filterable,
         Searchable |-> inputs[i].Searchable]]

\* createProductHandler.createProduct, createCategoryHandler.createCategory and
\* attribute.NewAttribute as the create handlers call them
ConstructAggregate(l, now) ==
    LET c == l.cmd[1]
    IN  CASE c.kind = "product" ->
                IF c.ID # Null THEN NewProductWithID(c.ID, c.in, now)
                ELSE NewProduct(GenID(l.no), c.in, now)
          [] c.kind = "category" ->
                LET in == [c.in EXCEPT !.Attributes = CreateCategoryAttributes(c.in.Attributes)]
                IN  IF c.ID # Null THEN NewCategoryWithID(c.ID, in, now)
                    ELSE NewCategory(GenID(l.no), in, now)
          [] c.kind = "attribute" ->
                NewAttribute(IF c.ID # Null THEN c.ID ELSE "", GenID(l.no), c.in, now)

\* the create handlers from the construction of the aggregate to the transaction
Construct(l, now) ==
    LET c == l.cmd[1]
        r == ConstructAggregate(l, now)
    IN  IF r.err # NoErr THEN Finish(l, Fail(Wrap("failed to create " \o c.kind, r.err)))
        ELSE [l EXCEPT !.agg = r.val,
                       !.msg = <<NewOutboxMessage(CreatedEventType(c.kind), r.val[1])>>,
                       !.pc = "txWrite"]

\* p.Update, c.Update and a.Update as the update handlers call them
MutateAggregate(l, now) ==
    LET c == l.cmd[1]
    IN  CASE c.kind = "product" -> ProductUpdate(l.agg[1], c.in, now)
          [] c.kind = "category" ->
                CategoryUpdate(l.agg[1],
                    [c.in EXCEPT !.Attributes = buildCategoryAttributes(c.in.Attributes, l.refs)],
                    now)
          [] c.kind = "attribute" -> AttributeUpdate(l.agg[1], c.in, now)

\* update handlers that call the aggregate's Update inside the transaction function
MutateInsideTransaction(l, now) ==
    LET c == l.cmd[1]
        r == MutateAggregate(l, now)
    IN  IF r.err # NoErr
        THEN Finish(Called(l, {"WithTransaction"}),
                    Fail(Wrap("failed to update " \o c.kind, r.err)))
        ELSE [l EXCEPT !.agg = <<r.agg>>, !.pc = "txWrite"]

\* the update handlers from the mutation of the aggregate to the transaction
Mutate(l, now) ==
    LET c == l.cmd[1]
        r == MutateAggregate(l, now)
    IN  IF r.err # NoErr THEN Finish(l, Fail(Wrap("failed to update " \o c.kind, r.err)))
        ELSE [l EXCEPT !.agg = <<r.agg>>, !.pc = "txWrite"]

\* after the references are resolved
AfterResolve(l, now) == IF l.cmd[1].op = "create" THEN Construct(l, now) ELSE Mutate(l, now)

\* validateAttributes / FindByIDsOrFail is the next access unless the ID list is
\* empty (FindByIDs returns before it queries the collection)
ToAttributes(l, now) ==
    IF Len(l.cmd[1].in.Attributes) = 0 THEN AfterResolve(l, now)
    ELSE [l EXCEPT !.pc = "attributes"]

\* validateCategory: nil CategoryID returns before it queries the collection
ToCategory(l, now) ==
    IF l.cmd[1].in.CategoryID = Null THEN ToAttributes(l, now)
    ELSE [l EXCEPT !.pc = "category"]

\* the reference resolution of a handler
Resolve(l, now) ==
    CASE l.cmd[1].kind = "product" -> ToCategory(l, now)
      [] l.cmd[1].kind = "category" -> ToAttributes(l, now)
      [] l.cmd[1].kind = "attribute" -> AfterResolve(l, now)

\* Handle: an update handler first loads the aggregate, a create handler resolves
Begin(l, now) ==
    IF l.cmd[1].op = "update" THEN [l EXCEPT !.pc = "find"] ELSE Resolve(l, now)

\* a pre-check that reports a version mismatch as a missing aggregate
findAndValidateNotFound(l, found, now) ==
    IF found.err # NoErr THEN
        IF found.err.sentinel = "ErrEntityNotFound" THEN Finish(l, Fail(ErrEntityNotFound))
        ELSE Finish(l, Fail(Wrap("failed to get " \o l.cmd[1].kind, found.err)))
    ELSE IF found.val[1].Version # l.cmd[1].Version THEN Finish(l, Fail(ErrEntityNotFound))
    ELSE Resolve([l EXCEPT !.agg = found.val], now)

\* findAndValidateProduct with its comparison of the versions taken out: what the
\* handler would do if the pre-check were skipped
findWithoutPreCheck(l, found, now) ==
    IF found.err # NoErr THEN
        IF found.err.sentinel = "ErrEntityNotFound" THEN Finish(l, Fail(ErrEntityNotFound))
        ELSE Finish(l, Fail(Wrap("failed to get " \o l.cmd[1].kind, found.err)))
    ELSE Resolve([l EXCEPT !.agg = found.val], now)

\* a pre-check that leaves the comparison of the versions to the conditioned write
findAndValidateSkipsVersion(l, found, now) == findWithoutPreCheck(l, found, now)

\* findAndValidateProduct, findAndValidateCategory, updateAttributeHandler.Handle
findAndValidate(l, found, now) ==
    IF found.err # NoErr THEN
        IF found.err.sentinel = "ErrEntityNotFound" THEN Finish(l, Fail(ErrEntityNotFound))
        ELSE Finish(l, Fail(Wrap("failed to get " \o l.cmd[1].kind, found.err)))
    ELSE IF found.val[1].Version # l.cmd[1].Version THEN Finish(l, Fail(ErrOptimisticLocking))
    ELSE Resolve([l EXCEPT !.agg = found.val], now)

\* a validateCategory that does not look at the answer of categoryRepo.Exists
validateCategoryIgnoresAnswer(l, exists, now) == ToAttributes(l, now)

\* validateCategory once categoryRepo.Exists answered
validateCategory(l, exists, now) ==
    IF ~exists THEN Finish(l, Fail(ErrCategoryNotFound)) ELSE ToAttributes(l, now)

\* a validateAttributes that drops the error of FindByIDsOrFail
validateAttributesDropsError(l, r, now) == AfterResolve([l EXCEPT !.refs = r.val], now)

\* validateAttributes / buildCategoryAttributes once FindByIDsOrFail answered
validateAttributes(l, r, now) ==
    IF r.err # NoErr THEN Finish(l, Fail(r.err))
    ELSE AfterResolve([l EXCEPT !.refs = r.val], now)

\* a transaction function that goes on after any error of repo.Insert
persistInsertIgnoresError(l, err) ==
    [l EXCEPT !.tx = [open |-> TRUE,
                      writes |-> <<[kind |-> l.cmd[1].kind, doc |-> l.agg[1]]>>,
                      rows |-> <<>>],
              !.pc = "txOutbox"]

\* persistAndPublish, the transaction function up to outbox.Create: repo.Insert
persistInsert(l, err) ==
    IF err # NoErr
    THEN Finish(l, Fail(Wrap("failed to insert " \o l.cmd[1].kind, err)))
    ELSE [l EXCEPT !.tx = [open |-> TRUE,
                           writes |-> <<[kind |-> l.cmd[1].kind, doc |-> l.agg[1]]>>,
                           rows |-> <<>>],
                   !.pc = "txOutbox"]

\* a transaction function that goes on after any error of repo.Update
persistUpdateIgnoresError(l, r) ==
    LET doc == IF r.err # NoErr THEN l.agg[1] ELSE r.val[1]
    IN  [l EXCEPT !.agg = <<doc>>,
                  !.msg = <<NewOutboxMessage(UpdatedEventType(l.cmd[1].kind), doc)>>,
                  !.tx = [open |-> TRUE,
                          writes |-> <<[kind |-> l.cmd[1].kind, doc |-> doc]>>,
                          rows |-> <<>>],
                  !.pc = "txOutbox"]

\* a transaction function that formats every error of repo.Update with %v
persistUpdateLosesSentinel(l, r) ==
    IF r.err # NoErr
    THEN Finish(l, Fail(Err("", "failed to update " \o l.cmd[1].kind \o ": " \o r.err.msg)))
    ELSE [l EXCEPT !.agg = r.val,
                   !.msg = <<NewOutboxMessage(UpdatedEventType(l.cmd[1].kind), r.val[1])>>,
                   !.tx = [open |-> TRUE,
                           writes |-> <<[kind |-> l.cmd[1].kind, doc |-> r.val[1]]>>,
                           rows |-> <<>>],
                   !.pc = "txOutbox"]

\* a transaction function that builds the message from the aggregate it handed to
\* repo.Update instead of the one repo.Update returned
persistUpdateMessageOfLoaded(l, r) ==
    IF r.err # NoErr THEN
        IF r.err.sentinel = "ErrOptimisticLocking" THEN Finish(l, Fail(ErrOptimisticLocking))
        ELSE Finish(l, Fail(Wrap("failed to update " \o l.cmd[1].kind, r.err)))
    ELSE [l EXCEPT !.agg = r.val,
                   !.msg = <<NewOutboxMessage(UpdatedEventType(l.cmd[1].kind), l.agg[1])>>,
                   !.tx = [open |-> TRUE,
                           writes |-> <<[kind |-> l.cmd[1].kind, doc |-> r.val[1]]>>,
                           rows |-> <<>>],
                   !.pc = "txOutbox"]

\* persistAndPublish, the transaction function up to outbox.Create: repo.Update
\* and the message built from the aggregate it returns
persistUpdate(l, r) ==
    IF r.err # NoErr THEN
        IF r.err.sentinel = "ErrOptimisticLocking" THEN Finish(l, Fail(ErrOptimisticLocking))
        ELSE Finish(l, Fail(Wrap("failed to update " \o l.cmd[1].kind, r.err)))
    ELSE [l EXCEPT !.agg = r.val,
                   !.msg = <<NewOutboxMessage(UpdatedEventType(l.cmd[1].kind), r.val[1])>>,
                   !.tx = [open |-> TRUE,
                           writes |-> <<[kind |-> l.cmd[1].kind, doc |-> r.val[1]]>>,
                           rows |-> <<>>],
                   !.pc = "txOutbox"]

\* a transaction function that never calls outbox.Create
persistWithoutOutbox(l, err) == [l EXCEPT !.pc = "txCommit"]

\* a transaction function that invokes the send function as soon as it has it
persistOutboxSendsInside(l, err) ==
    IF err # NoErr THEN Finish(l, Fail(Wrap("failed to create outbox", err)))
    ELSE Sent(Called([l EXCEPT !.tx.rows = l.msg, !.pc = "txCommit"], {"Send"}))

\* a transaction function that logs an error of outbox.Create and goes on
persistOutboxIgnoresError(l, err) ==
    IF err # NoErr THEN [l EXCEPT !.pc = "txCommit"]
    ELSE [l EXCEPT !.tx.rows = l.msg, !.pc = "txCommit"]

\* persistAndPublish, the transaction function from outbox.Create to its return
persistOutbox(l, err) ==
    IF err # NoErr THEN Finish(l, Fail(Wrap("failed to create outbox", err)))
    ELSE [l EXCEPT !.tx.rows = l.msg, !.pc = "txCommit"]

\* persistAndPublish after WithTransaction returned
afterTransaction(l, err) ==
    IF err # NoErr THEN Finish(l, Fail(err))
    ELSE [l EXCEPT !.tx = NoTx, !.pc = "send"]

\* a persistAndPublish that calls res.Send again when it fails
afterSendRetries(l, err) ==
    IF err # NoErr THEN [l EXCEPT !.pc = "send"] ELSE Finish(l, Ok(l.agg[1]))

\* a persistAndPublish that returns the error of res.Send
afterSendReturnsError(l, err) ==
    IF err # NoErr THEN Finish(l, Fail(err)) ELSE Finish(l, Ok(l.agg[1]))

\* persistAndPublish: _ = res.Send(ctx); return res.Product, nil
afterSend(l, err) == Finish(l, Ok(l.agg[1]))

\* the Version the target of an update command has in the store, 0 without one
StoredVersion(c) ==
    IF c.op = "update" /\ c.ID \in DOMAIN db[c.kind] THEN db[c.kind][c.ID].Version ELSE 0

(***************************************************************************)
(* Commands.                                                               *)
(***************************************************************************)
\* a CategoryAttributeInput and a product.AttributeValue naming the attribute id
CategoryAttributeInput(id) ==
    [AttributeID |-> id, Role |-> "variant", Required |-> TRUE, SortOrder |-> 1,
     Filterable |-> TRUE, Searchable |-> FALSE]
AttributeValue(id) ==
    [AttributeID |-> id, OptionSlugValue |-> Null, OptionSlugValues |-> <<>>,
     NumericValue |-> Null, TextValue |-> "t", BooleanValue |-> Null]

\* the inputs of the commands: <<ID, Name, Type, Slug>> of an attribute's create,
\* <<Version, Name>> of its update, <<ID, Name, attribute IDs>> of a category's create,
\* <<Version, Name, attribute IDs>> of an update; attribute "a2" is never created
CreateAttributeInputs ==
    {<<"a1", "n1", "single", <<"s", "1">> >>, <<Null, "n1", "text", <<"s", "1">> >>,
     <<"a1", "", "single", <<"s", "1">> >>, <<"a1", "n1", "single", <<"s", "2">> >>}
UpdateAttributeInputs == {<<1, "n2">>, <<1, "n3">>, <<2, "n2">>, <<1, "">>}
CreateCategoryInputs ==
    {<<"c1", "n1", <<>> >>, <<"c1", "n1", <<"a1">> >>, <<Null, "n1", <<"a2", "a1">> >>,
     <<"c1", "", <<>> >>}
UpdateCategoryInputs ==
    {<<1, "n2", <<>> >>, <<1, "n3", <<"a1">> >>, <<2, "n2", <<"a2", "a1">> >>,
     <<1, "", <<>> >>}
\* <<ID, CategoryID, Enabled, attribute IDs>>, <<Version, Name, CategoryID, Enabled, attribute IDs>>
CreateProductInputs ==
    {<<"p1", Null, FALSE, <<>> >>, <<"p1", "c1", TRUE, <<"a1">> >>,
     <<Null, "c1", FALSE, <<"a2", "a1">> >>, <<"p1", Null, TRUE, <<>> >>}
UpdateProductInputs ==
    {<<1, "n2", Null, FALSE, <<>> >>, <<1, "n3", "c1", TRUE, <<"a1">> >>,
     <<2, "n2", "c1", FALSE, <<>> >>, <<1, "n2", Null, TRUE, <<>> >>}

CreateAttributeCommands ==
    {[kind |-> "attribute", op |-> "create", ID |-> i[1],
      in |-> [Name |-> i[2], Slug |-> i[4], Type |-> i[3], Unit |-> Null,
              Enabled |-> TRUE, Options |-> <<>>]] : i \in CreateAttributeInputs}

UpdateAttributeCommands ==
    {[kind |-> "attribute", op |-> "update", ID |-> "a1", Version |-> i[1],
      in |-> [Name |-> i[2], Unit |-> "cm", Enabled |-> FALSE, Options |-> <<>>]] :
        i \in UpdateAttributeInputs}

CreateCategoryCommands ==
    {[kind |-> "category", op |-> "create", ID |-> i[1],
      in |-> [Name |-> i[2], Enabled |-> TRUE,
              Attributes |-> [k \in 1 .. Len(i[3]) |-> CategoryAttributeInput(i[3][k])]]] :
        i \in CreateCategoryInputs}

UpdateCategoryCommands ==
    {[kind |-> "category", op |-> "update", ID |-> "c1", Version |-> i[1],
      in |-> [Name |-> i[2], Enabled |-> FALSE,
              Attributes |-> [k \in 1 .. Len(i[3]) |-> CategoryAttributeInput(i[3][k])]]] :
        i \in UpdateCategoryInputs}

CreateProductCommands ==
    {[kind |-> "product", op |-> "create", ID |-> i[1],
      in |-> [Name |-> "n1", Description |-> Null, Price |-> 10, Quantity |-> 5,
              ImageID |-> "img", CategoryID |-> i[2], Enabled |-> i[3],
              Attributes |-> [k \in 1 .. Len(i[4]) |-> AttributeValue(i[4][k])]]] :
        i \in CreateProductInputs}

UpdateProductCommands ==
    {[kind |-> "product", op |-> "update", ID |-> "p1", Version |-> i[1],
      in |-> [Name |-> i[2], Description |-> "d", Price |-> 20, Quantity |-> 7,
              ImageID |-> "img", CategoryID |-> i[3], Enabled |-> i[4],
              Attributes |-> [k \in 1 .. Len(i[5]) |-> AttributeValue(i[5][k])]]] :
        i \in UpdateProductInputs}

Commands ==
    CreateAttributeCommands \cup UpdateAttributeCommands \cup CreateCategoryCommands
        \cup UpdateCategoryCommands \cup CreateProductCommands \cup UpdateProductCommands

(***************************************************************************)
(* Actions: one per access of a handler to the store, the outbox or the    *)
(* transport.                                                              *)
(***************************************************************************)
Init ==
    /\ db = [k \in Kinds |-> <<>>]
    /\ outbox = <<>>
    /\ h = [p \in Procs |-> Idle]
    /\ started = 0
    /\ subject = NoSubject

\* Handle is called with command c
StartCommand(p, c) ==
    /\ h[p].pc = "idle"
    /\ started < MaxCmds
    /\ started' = started + 1
    /\ h' = [h EXCEPT ![p] = Begin([Idle EXCEPT !.no = started + 1, !.cmd = <<c>>,
                                                !.base = StoredVersion(c)], started + 1)]
    /\ UNCHANGED <<db, outbox, subject>>

\* repo.FindByID and the version pre-check of an update handler
FindAndValidate(p) ==
    /\ h[p].pc = "find"
    /\ \E fault \in Outcomes(RequestContext(h[p])) :
        LET found == IF fault THEN Fail(ErrDatabase)
                     ELSE FindByID(h[p].cmd[1].kind, h[p].cmd[1].ID)
            l == Faulted(Called(h[p], {"FindByID"}), fault, "FindByID")
        IN  h' = [h EXCEPT ![p] = findAndValidate(l, found, started)]
    /\ UNCHANGED <<db, outbox, started, subject>>

\* categoryRepo.Exists of a product handler
ValidateCategory(p) ==
    /\ h[p].pc = "category"
    /\ \E fault \in Outcomes(RequestContext(h[p])) :
        LET l == Faulted(Called(h[p], {"Exists"}), fault, "Exists")
        IN  h' = [h EXCEPT ![p] =
                    IF fault
                    THEN Finish(l, Fail(Wrap("failed to check category", ErrDatabase)))
                    ELSE validateCategory(l, Exists("category", h[p].cmd[1].in.CategoryID),
                                          started)]
    /\ UNCHANGED <<db, outbox, started, subject>>

\* attrRepo.FindByIDsOrFail of a product or category handler
ResolveAttributes(p) ==
    /\ h[p].pc = "attributes"
    /\ \E fault \in Outcomes(RequestContext(h[p])) :
        LET r == IF fault
                 THEN [val |-> {}, err |-> Wrap("failed to fetch attributes", ErrDatabase)]
                 ELSE FindByIDsOrFail(AttributeIDsOf(h[p].cmd[1].in.Attributes))
            l == Faulted(Called(h[p], {"FindByIDsOrFail"}), fault, "FindByIDsOrFail")
        IN  h' = [h EXCEPT ![p] = validateAttributes(l, r, started)]
    /\ UNCHANGED <<db, outbox, started, subject>>

\* WithTransaction starts the transaction function: repo.Insert or repo.Update
RepoWrite(p) ==
    /\ h[p].pc = "txWrite"
    /\ ~WriteLocked(p, h[p].cmd[1].kind, h[p].agg[1])
    /\ \E fault \in Outcomes(TransactionContext(h[p])) :
        IF h[p].cmd[1].op = "create"
        THEN LET err == IF fault THEN ErrDatabase ELSE Insert(h[p].cmd[1].kind, h[p].agg[1])
                 l == Faulted(Called(h[p], {"WithTransaction", "Insert"}), fault, "Insert")
             IN  h' = [h EXCEPT ![p] = persistInsert(l, err)]
        ELSE LET r == IF fault THEN Fail(ErrDatabase)
                      ELSE GenericUpdate(h[p].cmd[1].kind, h[p].agg[1])
                 l == Faulted(Called(h[p], {"WithTransaction", "Update"}), fault, "Update")
             IN  h' = [h EXCEPT ![p] = persistUpdate(l, r)]
    /\ UNCHANGED <<db, outbox, started, subject>>

\* outbox.Create inside the transaction
OutboxCreate(p) ==
    /\ h[p].pc = "txOutbox"
    /\ \E fault \in Outcomes(TransactionContext(h[p])) :
        LET l == Faulted(Called(h[p], {"OutboxCreate"}), fault, "OutboxCreate")
        IN  h' = [h EXCEPT ![p] = persistOutbox(l, IF fault THEN ErrOutbox ELSE NoErr)]
    /\ UNCHANGED <<db, outbox, started, subject>>

\* the transaction function returned nil: WithTransaction commits both writes, or
\* fails to and rolls back
Commit(p) ==
    /\ h[p].pc = "txCommit"
    /\ \E fault \in Outcomes(TransactionContext(h[p])) :
        /\ h' = [h EXCEPT ![p] =
                    afterTransaction(Committed(Faulted(h[p], fault, "Commit"), ~fault),
                                     IF fault THEN ErrDatabase ELSE NoErr)]
        /\ IF ~fault
           THEN /\ db' = [db EXCEPT ![h[p].tx.writes[1].kind] =
                            (h[p].tx.writes[1].doc.ID :> h[p].tx.writes[1].doc) @@ @]
                /\ outbox' = outbox \o h[p].tx.rows
           ELSE UNCHANGED <<db, outbox>>
    /\ UNCHANGED <<started, subject>>

\* the caller cancels the context of an invocation in flight
Cancel(p) ==
    /\ h[p].pc \notin {"idle", "done"}
    /\ h[p].cancelled = "no"
    /\ h' = [h EXCEPT ![p] = Cancelled(h[p])]
    /\ UNCHANGED <<db, outbox, started, subject>>

\* the deferred send function, called once after the commit; its error is dropped
Send(p) ==
    /\ h[p].pc = "send"
    /\ \E fault \in Outcomes(RequestContext(h[p])) :
        LET l == Sent(Faulted(Called(h[p], {"Send"}), fault, "Send"))
        IN  h' = [h EXCEPT ![p] = afterSend(l, IF fault THEN ErrSend ELSE NoErr)]
    /\ UNCHANGED <<db, outbox, started, subject>>

\* the caller has the result; the invocation ends
Return(p) ==
    /\ h[p].pc = "done"
    /\ h' = [h EXCEPT ![p] = Idle]
    /\ UNCHANGED <<db, outbox, started, subject>>

Next ==
    \E p \in Procs :
        \/ \E c \in Commands : StartCommand(p, c)
        \/ FindAndValidate(p)
        \/ ValidateCategory(p)
        \/ ResolveAttributes(p)
        \/ RepoWrite(p)
        \/ OutboxCreate(p)
        \/ Commit(p)
        \/ Send(p)
        \/ Cancel(p)
        \/ Return(p)

Spec == Init /\ [][Next]_vars

(***************************************************************************)
(* The handlers with the version pre-check of the update handlers skipped: *)
(* the conditioned write is the only check left.                           *)
(***************************************************************************)
FindWithoutPreCheck(p) ==
    /\ h[p].pc = "find"
    /\ \E fault \in Outcomes(RequestContext(h[p])) :
        LET found == IF fault THEN Fail(ErrDatabase)
                     ELSE FindByID(h[p].cmd[1].kind, h[p].cmd[1].ID)
            l == Faulted(Called(h[p], {"FindByID"}), fault, "FindByID")
        IN  h' = [h EXCEPT ![p] = findWithoutPreCheck(l, found, started)]
    /\ UNCHANGED <<db, outbox, started, subject>>

NextWithoutPreCheck ==
    \E p \in Procs :
        \/ \E c \in Commands : StartCommand(p, c)
        \/ FindWithoutPreCheck(p)
        \/ ValidateCategory(p)
        \/ ResolveAttributes(p)
        \/ RepoWrite(p)
        \/ OutboxCreate(p)
        \/ Commit(p)
        \/ Send(p)
        \/ Cancel(p)
        \/ Return(p)

SpecWithoutPreCheck == Init /\ [][NextWithoutPreCheck]_vars

(***************************************************************************)
(* attributeRepository.FindByIDsOrFail called directly: the stored         *)
(* attributes and the list of IDs are drawn first.                         *)
(***************************************************************************)
\* longest list of IDs handed to FindByIDsOrFail
MaxIDs == 3

AttributeIDs == {"a1", "a2", "a3"}
IDLists == UNION {[1 .. n -> AttributeIDs] : n \in 0 .. MaxIDs}

\* the attribute of ID id as the create handler stores it, with a slug of its own
StoredAttribute(id) ==
    NewAttribute(id, "", [Name |-> "n", Slug |-> <<"s", IF id = "a1" THEN "1" ELSE "2">>,
                          Type |-> "single", Unit |-> Null, Enabled |-> TRUE,
                          Options |-> <<>>], 0).val[1]

\* the caller holds the list ids and has not called yet
Lookup(ids) ==
    [kind |-> "attribute", op |-> "none", agg |-> {}, err |-> NoErr, options |-> <<>>,
     ids |-> ids]

InitFind ==
    /\ \E stored \in SUBSET {"a1", "a2"} :
            db = [k \in Kinds |->
                    IF k = "attribute" THEN [id \in stored |-> StoredAttribute(id)] ELSE <<>>]
    /\ outbox = <<>>
    /\ h = [p \in Procs |-> Idle]
    /\ started = 0
    /\ \E ids \in IDLists : subject = Lookup(ids)

CallFindByIDs ==
    /\ subject.op = "none"
    /\ subject' = [subject EXCEPT !.op = "FindByIDs", !.agg = FindByIDs(subject.ids)]
    /\ UNCHANGED <<db, outbox, h, started>>

CallFindByIDsOrFail ==
    /\ subject.op = "none"
    /\ LET r == FindByIDsOrFail(subject.ids)
       IN  subject' = [subject EXCEPT !.op = "FindByIDsOrFail", !.agg = r.val, !.err = r.err]
    /\ UNCHANGED <<db, outbox, h, started>>

NextFind ==
    \/ CallFindByIDs
    \/ CallFindByIDsOrFail

SpecFind == InitFind /\ [][NextFind]_vars

(***************************************************************************)
(* The product package called directly: every constructor and Update, on   *)
(* every combination of the values the validations tell apart.             *)
(***************************************************************************)
RECURSIVE Repeat(_, _)
Repeat(str, n) ==
    IF n = 0 THEN ""
    ELSE IF n % 2 = 0 THEN LET half == Repeat(str, n \div 2) IN half \o half
    ELSE str \o Repeat(str, n - 1)

ProductInputs ==
    [Name : {"", "n", Repeat("x", MaxProductName + 1)}, Description : {Null},
     Price : {-1, 0, 10}, Quantity : {-1, 0, 5}, ImageID : {Null, "img"},
     CategoryID : {Null, "c1"}, Enabled : BOOLEAN, Attributes : {<<>>}]

CallNewProduct(in) ==
    LET r == NewProduct(GenID(0), in, started)
    IN  /\ subject' = [kind |-> "product", op |-> "NewProduct", agg |-> r.val, err |-> r.err,
                       options |-> <<>>]
        /\ UNCHANGED <<db, outbox, h, started>>

CallNewProductWithID(in) ==
    LET r == NewProductWithID("p1", in, started)
    IN  /\ subject' = [kind |-> "product", op |-> "NewProductWithID", agg |-> r.val,
                       err |-> r.err, options |-> <<>>]
        /\ UNCHANGED <<db, outbox, h, started>>

CallReconstruct(in) ==
    /\ subject' = [kind |-> "product", op |-> "Reconstruct",
                   agg |-> <<ProductReconstruct("p1", 1, in, started, started)>>,
                   err |-> NoErr, options |-> <<>>]
    /\ UNCHANGED <<db, outbox, h, started>>

\* a call on an aggregate is made later than the call that built it
CallUpdate(in) ==
    /\ subject.kind = "product" /\ subject.agg # <<>>
    /\ LET r == ProductUpdate(subject.agg[1], in, started + 1)
       IN  subject' = [kind |-> "product", op |-> "Update", agg |-> <<r.agg>>, err |-> r.err,
                       options |-> <<>>]
    /\ UNCHANGED <<db, outbox, h, started>>

NextProduct ==
    \E in \in ProductInputs :
        \/ CallNewProduct(in)
        \/ CallNewProductWithID(in)
        \/ CallReconstruct(in)
        \/ CallUpdate(in)

SpecProduct == Init /\ [][NextProduct]_vars

(***************************************************************************)
(* The validation of package product: the arguments are drawn first, then  *)
(* one of NewProduct, NewProductWithID and Update is called with them.     *)
(***************************************************************************)
\* the caller holds the arguments `in` and has not called yet
Arguments(in) ==
    [kind |-> "product", op |-> "none", agg |-> <<>>, err |-> NoErr, options |-> <<>>,
     in |-> in]

InitValidation ==
    /\ db = [k \in Kinds |-> <<>>]
    /\ outbox = <<>>
    /\ h = [p \in Procs |-> Idle]
    /\ started = 0
    /\ \E in \in ProductInputs : subject = Arguments(in)

\* the product Update is called on: valid, disabled, as Reconstruct returns it
StoredProduct ==
    ProductReconstruct("p1", 1,
        [Name |-> "n", Description |-> Null, Price |-> 10, Quantity |-> 5, ImageID |-> Null,
         CategoryID |-> Null, Enabled |-> FALSE, Attributes |-> <<>>], started, started)

ValidateNewProduct ==
    /\ subject.op = "none"
    /\ LET r == NewProduct(GenID(0), subject.in, started)
       IN  subject' = [subject EXCEPT !.op = "NewProduct", !.agg = r.val, !.err = r.err]
    /\ UNCHANGED <<db, outbox, h, started>>

ValidateNewProductWithID ==
    /\ subject.op = "none"
    /\ LET r == NewProductWithID("p1", subject.in, started)
       IN  subject' = [subject EXCEPT !.op = "NewProductWithID", !.agg = r.val, !.err = r.err]
    /\ UNCHANGED <<db, outbox, h, started>>

ValidateUpdate ==
    /\ subject.op = "none"
    /\ LET r == ProductUpdate(StoredProduct, subject.in, started + 1)
       IN  subject' = [subject EXCEPT !.op = "Update", !.agg = <<r.agg>>, !.err = r.err]
    /\ UNCHANGED <<db, outbox, h, started>>

NextValidation ==
    \/ ValidateNewProduct
    \/ ValidateNewProductWithID
    \/ ValidateUpdate

SpecValidation == InitValidation /\ [][NextValidation]_vars

(***************************************************************************)
(* The three domain packages called directly: the constructors and every   *)
(* method that changes an aggregate, on valid and on invalid arguments.    *)
(***************************************************************************)
\* longest option list handed to NewAttribute and Attribute.Update
MaxOptions == 2
\* highest Version IncrementVersion is called up to
MaxVersion == 3

\* Crimson has the slug of Red
Red == [Name |-> "red", Slug |-> <<"r", "e", "d">>, ColorCode |-> Null, SortOrder |-> 0]
Crimson == [Name |-> "crimson", Slug |-> <<"r", "e", "d">>, ColorCode |-> "c", SortOrder |-> 1]
Sea == [Name |-> "sea", Slug |-> <<"s", "e", "a">>, ColorCode |-> Null, SortOrder |-> 2]
Options == {Red, Crimson, Sea}
OptionLists == UNION {[1 .. n -> Options] : n \in 0 .. MaxOptions}

\* the arguments of NewProduct, product.Reconstruct and Product.Update
ProductArguments ==
    [Name : {"", "n", Repeat("x", MaxProductName + 1)}, Description : {Null},
     Price : {-1, 10}, Quantity : {5}, ImageID : {Null, "img"}, CategoryID : {"c1"},
     Enabled : BOOLEAN, Attributes : {<<>>}]
\* the arguments of NewAttribute, of Reconstruct (what a document may hold) and of Update
AttributeInputs ==
    [Name : {"", "n", Repeat("x", MaxAttributeName + 1)}, Slug : {<<"s", "1">>, <<"-">>},
     Type : {"single"}, Unit : {Null}, Enabled : {TRUE}, Options : OptionLists]
AttributeDocuments ==
    [Name : {"n"}, Slug : {<<"s", "1">>}, Type : {"single"}, Unit : {Null}, Enabled : {TRUE},
     Options : OptionLists]
AttributeUpdateInputs ==
    [Name : {"", "m", Repeat("x", MaxAttributeName + 1)}, Unit : {"cm"}, Enabled : {FALSE},
     Options : OptionLists]
CategoryInputs ==
    [Name : {"", "n", "m", Repeat("x", MaxCategoryName + 1)}, Enabled : BOOLEAN,
     Attributes : {<<>>, <<[AttributeID |-> "a1", Slug |-> <<"s", "1">>, Role |-> "variant",
                           Required |-> TRUE, SortOrder |-> 1, Filterable |-> TRUE,
                           Searchable |-> FALSE]>>}]

CallNewAttribute(id, in) ==
    LET r == NewAttribute(id, GenID(0), in, started)
    IN  /\ subject' = [kind |-> "attribute", op |-> "NewAttribute", agg |-> r.val,
                       err |-> r.err, options |-> in.Options]
        /\ UNCHANGED <<db, outbox, h, started>>

CallAttributeReconstruct(in) ==
    /\ subject' = [kind |-> "attribute", op |-> "Reconstruct",
                   agg |-> <<AttributeReconstruct("a1", 1, in, started, started)>>,
                   err |-> NoErr, options |-> in.Options]
    /\ UNCHANGED <<db, outbox, h, started>>

CallAttributeUpdate(in) ==
    /\ subject.kind = "attribute" /\ subject.agg # <<>>
    /\ LET r == AttributeUpdate(subject.agg[1], in, started + 1)
       IN  subject' = [kind |-> "attribute", op |-> "Update", agg |-> <<r.agg>>,
                       err |-> r.err, options |-> in.Options]
    /\ UNCHANGED <<db, outbox, h, started>>

CallNewCategory(in) ==
    LET r == NewCategory(GenID(0), in, started)
    IN  /\ subject' = [kind |-> "category", op |-> "NewCategory", agg |-> r.val,
                       err |-> r.err, options |-> <<>>]
        /\ UNCHANGED <<db, outbox, h, started>>

CallNewCategoryWithID(in) ==
    LET r == NewCategoryWithID("c1", in, started)
    IN  /\ subject' = [kind |-> "category", op |-> "NewCategoryWithID", agg |-> r.val,
                       err |-> r.err, options |-> <<>>]
        /\ UNCHANGED <<db, outbox, h, started>>

\* a method of the category the caller holds: r is what the method leaves
CallOnCategory(op, r) ==
    /\ subject' = [kind |-> "category", op |-> op, agg |-> <<r.agg>>, err |-> r.err,
                   options |-> <<>>]
    /\ UNCHANGED <<db, outbox, h, started>>

HoldsCategory == subject.kind = "category" /\ subject.agg # <<>>

CallCategoryUpdate(in) ==
    HoldsCategory /\ CallOnCategory("Update", CategoryUpdate(subject.agg[1], in, started + 1))

CallChangeName(newName) ==
    HoldsCategory
        /\ CallOnCategory("ChangeName", CategoryChangeName(subject.agg[1], newName, started + 1))

CallEnable ==
    HoldsCategory
        /\ CallOnCategory("Enable", Left(CategoryEnable(subject.agg[1], started + 1), NoErr))

CallDisable ==
    HoldsCategory
        /\ CallOnCategory("Disable", Left(CategoryDisable(subject.agg[1], started + 1), NoErr))

CallIncrementVersion ==
    /\ HoldsCategory
    /\ subject.agg[1].Version < MaxVersion
    /\ CallOnCategory("IncrementVersion", Left(CategoryIncrementVersion(subject.agg[1]), NoErr))

NextDomain ==
    \/ \E in \in ProductArguments :
            \/ CallNewProduct(in)
            \/ CallReconstruct(in)
            \/ CallUpdate(in)
    \/ \E in \in AttributeInputs, id \in {"", "a1"} : CallNewAttribute(id, in)
    \/ \E in \in AttributeDocuments : CallAttributeReconstruct(in)
    \/ \E in \in AttributeUpdateInputs : CallAttributeUpdate(in)
    \/ \E in \in CategoryInputs :
            \/ CallNewCategory(in)
            \/ CallNewCategoryWithID(in)
            \/ CallCategoryUpdate(in)
            \/ CallChangeName(in.Name)
    \/ CallEnable
    \/ CallDisable
    \/ CallIncrementVersion

SpecDomain == Init /\ [][NextDomain]_vars

(***************************************************************************)
(* Vocabulary of the properties.                                           *)
(***************************************************************************)
\* the invocation has returned to its caller and the caller still holds the result
Done(p) == h[p].pc = "done"
Result(p) == h[p].res[1]
Succeeded(p) == Done(p) /\ Result(p).err = NoErr
\* errors.Is(err, sentinel)
Is(err, sentinel) == err.sentinel = sentinel
IsCommand(p, kind, op) ==
    h[p].cmd # <<>> /\ h[p].cmd[1].kind = kind /\ h[p].cmd[1].op = op

\* the attribute IDs a command references
ReferencedAttributes(c) ==
    IF c.kind = "attribute" THEN {}
    ELSE {c.in.Attributes[i].AttributeID : i \in 1 .. Len(c.in.Attributes)}

AttributeNotFound(id) == Err("", "attribute not found: " \o id)

\* the command failed for a reason that is not the version: a collaborator's own
\* failure, invalid data, a missing aggregate, a missing reference
OtherFailure(p) ==
    \/ h[p].faults \ {"Send"} # {}
    \/ Result(p).err.sentinel \in {"ErrInvalidProductData", "ErrInvalidAttributeData",
                                   "ErrInvalidCategoryData", "ErrEntityNotFound",
                                   "ErrCategoryNotFound"}
    \/ \E id \in ReferencedAttributes(h[p].cmd[1]) \cup {""} :
            Result(p).err = AttributeNotFound(id)

\* the collection an event type belongs to
KindOfEvent(eventType) ==
    CASE eventType = "ProductUpdated" -> "product"
      [] eventType \in {"CategoryCreated", "CategoryUpdated"} -> "category"
      [] eventType = "AttributeUpdated" -> "attribute"

\* the positions of the committed outbox rows of an aggregate
RowsOf(kind, id) ==
    {i \in 1 .. Len(outbox) : outbox[i].Key = id /\ KindOfEvent(outbox[i].EventType) = kind}

\* p and q are the only invocations that have updated the aggregate: every
\* committed row past Version 1 carries the aggregate one of them wrote
OnlyWriters(p, q, kind, id) ==
    \A i \in RowsOf(kind, id) :
        outbox[i].Payload.Version > 1 => <<outbox[i].Payload>> \in {h[p].agg, h[q].agg}

\* two update commands on the same aggregate, both carrying Version 1
UpdatesOfVersion1(p, q, kind) ==
    /\ p # q /\ Done(p) /\ Done(q)
    /\ IsCommand(p, kind, "update") /\ IsCommand(q, kind, "update")
    /\ h[p].cmd[1].ID = h[q].cmd[1].ID
    /\ h[p].cmd[1].Version = 1 /\ h[q].cmd[1].Version = 1
    /\ OnlyWriters(p, q, kind, h[p].cmd[1].ID)

\* p's update is the one stored, at Version 2, and q was refused with the conflict
Wins(p, q, kind) ==
    /\ Result(p).err = NoErr
    /\ Result(p).val[1].Version = 2
    /\ Is(Result(q).err, "ErrOptimisticLocking")
    /\ db[kind][h[p].cmd[1].ID] = Result(p).val[1]

(***************************************************************************)
(* C1. Two UpdateCategory commands on the same category, both carrying     *)
(* Version 1 and both started while the stored category is at Version 1,   *)
(* neither failing for another reason and no third writer: whatever the    *)
(* interleaving, exactly one succeeds, the stored Version is 2 and the     *)
(* other gets the optimistic-locking conflict.                             *)
(***************************************************************************)
Racing(p, q) ==
    /\ UpdatesOfVersion1(p, q, "category")
    /\ h[p].base = 1 /\ h[q].base = 1
    /\ ~OtherFailure(p) /\ ~OtherFailure(q)

C1_ExactlyOneConcurrentUpdateWins ==
    \A p, q \in Procs : Racing(p, q) => Wins(p, q, "category") \/ Wins(q, p, "category")

\* both passed the pre-check, and the loser lost at the conditioned write
C1_Witness ==
    \E p, q \in Procs :
        Racing(p, q) /\ Wins(p, q, "category") /\ "Update" \in h[q].calls

(***************************************************************************)
(* C2. An aggregate of any kind stored at Version 1: a first Update with   *)
(* Version 1 has succeeded; a second Update still carrying Version 1,      *)
(* started when the stored Version is 2, fails with the conflict, and the  *)
(* stored aggregate is the one the first Update returned, at Version 2.    *)
(***************************************************************************)
Sequential(p, q, kind) ==
    /\ UpdatesOfVersion1(p, q, kind)
    /\ Succeeded(p)
    /\ h[q].base = 2
    /\ h[q].faults = {}

C2_SecondUpdateOfVersion1Conflicts ==
    \A kind \in Kinds : \A p, q \in Procs :
        Sequential(p, q, kind) =>
            /\ Wins(p, q, kind)
            /\ db[kind][h[p].cmd[1].ID].Name = h[p].cmd[1].in.Name

C2_Witness ==
    \E p, q \in Procs :
        /\ Sequential(p, q, "attribute")
        /\ Wins(p, q, "attribute")
        /\ h[p].cmd[1].in.Name # h[q].cmd[1].in.Name

(***************************************************************************)
(* C3. Every committed aggregate write has its outbox row: for every       *)
(* stored aggregate and every Version up to the stored one there is a      *)
(* committed outbox row of that aggregate at that Version, and the row of  *)
(* the stored Version carries the stored aggregate.                        *)
(***************************************************************************)
C3_CommitImpliesOutboxRow ==
    \A kind \in Kinds : \A id \in DOMAIN db[kind] :
        /\ \A v \in 1 .. db[kind][id].Version :
                \E i \in RowsOf(kind, id) : outbox[i].Payload.Version = v
        /\ \E i \in RowsOf(kind, id) : outbox[i].Payload = db[kind][id]

\* an Insert and a conditioned Update have both been committed
C3_Witness ==
    \E kind \in Kinds : \E id \in DOMAIN db[kind] :
        db[kind][id].Version = 2 /\ Cardinality(RowsOf(kind, id)) = 2
(***************************************************************************)
(* C4. A Create command whose repo.Insert succeeded and whose              *)
(* outbox.Create then fails inside the transaction: the command returns an *)
(* error and FindByID of the aggregate's ID reports not found.             *)
(***************************************************************************)
OutboxCreateFails(p) ==
    /\ h[p].pc = "txOutbox"
    /\ h[p].cmd[1].op = "create"
    /\ "OutboxCreate" \in h'[p].faults

C4_OutboxFailureUndoesInsert ==
    [][\A p \in Procs :
          OutboxCreateFails(p) =>
              /\ h'[p].pc = "done"
              /\ h'[p].res[1].err # NoErr
              /\ FindByID(h[p].cmd[1].kind, h[p].agg[1].ID)'.err = ErrEntityNotFound]_vars

C4_Witness ==
    \E p \in Procs :
        /\ Done(p) /\ h[p].cmd[1].op = "create"
        /\ "Insert" \in h[p].calls /\ h[p].faults = {"OutboxCreate"}
        /\ Result(p).err = Wrap("failed to create outbox", ErrOutbox)
        /\ FindByID(h[p].cmd[1].kind, h[p].agg[1].ID).err = ErrEntityNotFound

(***************************************************************************)
(* C5. An Update command whose transaction fails, at the conditioned       *)
(* repo.Update or at the outbox.Create after it: the command returns an    *)
(* error, and no step of the command up to that failure changes the stored *)
(* aggregates or adds an outbox row.                                       *)
(***************************************************************************)
\* p takes the step in which repo.Update or outbox.Create fails
TransactionStepFails(p) ==
    /\ h[p].pc \in {"txWrite", "txOutbox"}
    /\ h'[p].calls # h[p].calls
    /\ \/ h'[p].faults # h[p].faults
       \/ h[p].pc = "txWrite" /\ GenericUpdate(h[p].cmd[1].kind, h[p].agg[1]).err # NoErr

C5_FailedUpdateChangesNothing ==
    [][\A p \in Procs :
          (h[p].cmd # <<>> /\ h[p].cmd[1].op = "update" /\ h'[p] # h[p]
                /\ h[p].pc \in {"find", "category", "attributes", "txWrite", "txOutbox"}) =>
              /\ db' = db /\ outbox' = outbox
              /\ TransactionStepFails(p) => h'[p].pc = "done" /\ h'[p].res[1].err # NoErr]_vars

\* an Update whose outbox.Create failed after its conditioned write succeeded
C5_Witness ==
    \E p \in Procs :
        /\ Done(p) /\ h[p].cmd[1].op = "update"
        /\ "Update" \in h[p].calls /\ h[p].faults = {"OutboxCreate"}
        /\ Result(p).err # NoErr
        /\ db[h[p].cmd[1].kind][h[p].cmd[1].ID].Version = h[p].cmd[1].Version
        /\ Cardinality(RowsOf(h[p].cmd[1].kind, h[p].cmd[1].ID)) = 1

(***************************************************************************)
(* C6. An Update handler whose pre-check passed and whose conditioned      *)
(* write finds a stored Version another writer has committed since:        *)
(* repo.Update returns the conflict, the handler returns the               *)
(* optimistic-locking error, the stored aggregate is unchanged and no      *)
(* outbox row is added.                                                    *)
(***************************************************************************)
\* p takes the step of repo.Update, the database answers, and the stored Version
\* is no longer the one p loaded
StaleWrite(p) ==
    /\ h[p].pc = "txWrite"
    /\ h[p].cmd[1].op = "update"
    /\ h'[p].calls # h[p].calls
    /\ h'[p].faults = h[p].faults
    /\ db[h[p].cmd[1].kind][h[p].cmd[1].ID].Version # h[p].agg[1].Version

C6_StaleWriteConflicts ==
    [][\A p \in Procs :
          StaleWrite(p) =>
              /\ Is(GenericUpdate(h[p].cmd[1].kind, h[p].agg[1]).err, "ErrOptimisticLocking")
              /\ h'[p].pc = "done"
              /\ Is(h'[p].res[1].err, "ErrOptimisticLocking")
              /\ db' = db /\ outbox' = outbox]_vars

C6_Witness ==
    \E p \in Procs :
        /\ Done(p) /\ h[p].cmd[1].op = "update"
        /\ "Update" \in h[p].calls /\ h[p].faults = {}
        /\ h[p].agg[1].Version = h[p].cmd[1].Version
        /\ db[h[p].cmd[1].kind][h[p].cmd[1].ID].Version = h[p].cmd[1].Version + 1
        /\ Is(Result(p).err, "ErrOptimisticLocking")
        /\ "OutboxCreate" \notin h[p].calls
(***************************************************************************)
(* C7. Every Product returned by NewProduct or NewProductWithID, and every *)
(* Product a successful Update leaves, satisfies: Enabled implies          *)
(* Price > 0, Quantity > 0, ImageID not null and CategoryID not null.      *)
(***************************************************************************)
EnabledInvariant(p) ==
    p.Enabled => p.Price > 0 /\ p.Quantity > 0 /\ p.ImageID # Null /\ p.CategoryID # Null

C7_EnabledProductIsSellable ==
    (\/ subject.op \in {"NewProduct", "NewProductWithID"} /\ subject.agg # <<>>
     \/ subject.op = "Update" /\ subject.err = NoErr)
        => EnabledInvariant(subject.agg[1])

\* a successful Update has enabled a product
C7_Witness ==
    /\ subject.op = "Update" /\ subject.err = NoErr
    /\ subject.agg[1].Enabled /\ subject.agg[1].Price = 10 /\ subject.agg[1].Quantity = 5
(***************************************************************************)
(* C8. Whatever UpdateAttribute commands run on an attribute, with         *)
(* whatever inputs and whether they succeed or fail, the Slug and the Type *)
(* of the stored attribute, of the attribute a handler holds and of the    *)
(* attribute a handler returns are those the attribute was created with.   *)
(***************************************************************************)
\* the attribute as NewAttribute built it: the payload of its Version 1 row
AsCreated(id) ==
    outbox[CHOOSE i \in RowsOf("attribute", id) : outbox[i].Payload.Version = 1].Payload

SameSlugAndType(a) == a.Slug = AsCreated(a.ID).Slug /\ a.Type = AsCreated(a.ID).Type

C8_SlugAndTypeAreImmutable ==
    /\ \A id \in DOMAIN db["attribute"] : SameSlugAndType(db["attribute"][id])
    /\ \A p \in Procs :
          IsCommand(p, "attribute", "update") =>
              /\ h[p].agg # <<>> => SameSlugAndType(h[p].agg[1])
              /\ Succeeded(p) => SameSlugAndType(Result(p).val[1])

\* one UpdateAttribute has succeeded and a later one has failed
C8_Witness ==
    \E p \in Procs :
        /\ IsCommand(p, "attribute", "update") /\ Done(p) /\ Result(p).err # NoErr
        /\ h[p].cmd[1].ID \in DOMAIN db["attribute"]
        /\ db["attribute"][h[p].cmd[1].ID].Version = 2
        /\ db["attribute"][h[p].cmd[1].ID].Name # AsCreated(h[p].cmd[1].ID).Name
        /\ SameSlugAndType(db["attribute"][h[p].cmd[1].ID])
(***************************************************************************)
(* C9. A CreateProduct command whose CategoryID is set and names a         *)
(* category that does not exist never invokes repo.Insert, and (unless     *)
(* categoryRepo.Exists itself fails) returns ErrCategoryNotFound.          *)
(***************************************************************************)
\* no category is ever deleted: one that is absent now was absent when p asked
NamesMissingCategory(p) ==
    /\ IsCommand(p, "product", "create")
    /\ h[p].cmd[1].in.CategoryID # Null
    /\ ~Exists("category", h[p].cmd[1].in.CategoryID)

C9_MissingCategoryRefusesCreate ==
    \A p \in Procs :
        NamesMissingCategory(p) =>
            /\ "Insert" \notin h[p].calls
            /\ Done(p) /\ h[p].faults = {} => Is(Result(p).err, "ErrCategoryNotFound")

C9_Witness ==
    \E p \in Procs :
        /\ NamesMissingCategory(p) /\ Done(p)
        /\ h[p].calls = {"Exists"} /\ h[p].faults = {}
        /\ Result(p) = Fail(ErrCategoryNotFound)

(***************************************************************************)
(* C10. A CreateCategory or CreateProduct command that reaches             *)
(* FindByIDsOrFail (for CreateProduct: after its category check passed)    *)
(* while one of the AttributeIDs it references is not stored: unless the   *)
(* query itself fails, the command ends with "attribute not found: <id>",  *)
(* <id> being the first AttributeID of the command that is not stored, and *)
(* repo.Insert has not been invoked.                                       *)
(***************************************************************************)
\* p takes the step of FindByIDsOrFail, the database answers, and an attribute
\* the command references is not stored
ResolvesMissingAttribute(p) ==
    /\ h[p].pc = "attributes"
    /\ h[p].cmd[1].op = "create"
    /\ h'[p].calls # h[p].calls
    /\ h'[p].faults = h[p].faults
    /\ ~(ReferencedAttributes(h[p].cmd[1]) \subseteq DOMAIN db["attribute"])

C10_FirstMissingAttributeRefusesCreate ==
    [][\A p \in Procs :
          ResolvesMissingAttribute(p) =>
              /\ h'[p].pc = "done"
              /\ h'[p].res[1] =
                    Fail(AttributeNotFound(FirstMissing(AttributeIDsOf(h[p].cmd[1].in.Attributes),
                                                        DOMAIN db["attribute"])))
              /\ "Insert" \notin h'[p].calls]_vars

\* a CreateProduct whose category exists and whose first attribute does not
C10_Witness ==
    \E p \in Procs :
        /\ IsCommand(p, "product", "create") /\ Done(p)
        /\ h[p].calls = {"Exists", "FindByIDsOrFail"} /\ h[p].faults = {}
        /\ Result(p) = Fail(AttributeNotFound("a2"))
        /\ "a2" \notin DOMAIN db["attribute"]

\* C10 as stated: a create command that references an AttributeID that is not
\* stored ends with an error naming such an AttributeID, without an Insert
C10_AsStated ==
    \A p \in Procs :
        (/\ Done(p) /\ h[p].cmd[1].op = "create" /\ h[p].faults = {}
         /\ ~(ReferencedAttributes(h[p].cmd[1]) \subseteq DOMAIN db["attribute"])) =>
            /\ \E id \in ReferencedAttributes(h[p].cmd[1]) \ DOMAIN db["attribute"] :
                    Result(p).err = AttributeNotFound(id)
            /\ "Insert" \notin h[p].calls
(***************************************************************************)
(* C11. A Create or Update command of any kind that ends because reference *)
(* resolution failed (category or attribute missing, or the lookup itself  *)
(* failing) or because the aggregate's validating operation returned a     *)
(* validation error has never called WithTransaction, and so neither       *)
(* repo.Insert, repo.Update nor outbox.Create.                             *)
(***************************************************************************)
ResolutionFailed(p) ==
    /\ Done(p)
    /\ \/ Is(Result(p).err, "ErrCategoryNotFound")
       \/ \E id \in ReferencedAttributes(h[p].cmd[1]) \cup {""} :
                Result(p).err = AttributeNotFound(id)
       \/ h[p].faults \cap {"Exists", "FindByIDsOrFail"} # {}

ValidationFailed(p) ==
    /\ Done(p)
    /\ Result(p).err.sentinel \in {"ErrInvalidProductData", "ErrInvalidAttributeData",
                                   "ErrInvalidCategoryData"}

C11_NoTransactionAfterRejection ==
    \A p \in Procs :
        ResolutionFailed(p) \/ ValidationFailed(p) =>
            h[p].calls \cap {"WithTransaction", "Insert", "Update", "OutboxCreate", "Send"} = {}

\* an update whose aggregate was loaded and whose Update returned a validation error
C11_Witness ==
    \E p \in Procs :
        /\ ValidationFailed(p) /\ h[p].cmd[1].op = "update"
        /\ h[p].agg # <<>>
        /\ "WithTransaction" \notin h[p].calls

(***************************************************************************)
(* C12. Once the transaction of a command has committed, the command       *)
(* returns success with the persisted aggregate, whether or not the        *)
(* deferred send returned an error.                                        *)
(***************************************************************************)
C12_SuccessAfterCommit ==
    \A p \in Procs :
        (Done(p) /\ h[p].committed) =>
            /\ Result(p).err = NoErr
            /\ \E i \in RowsOf(h[p].cmd[1].kind, Result(p).val[1].ID) :
                    outbox[i].Payload = Result(p).val[1]

\* the send failed and the caller has the stored aggregate
C12_Witness ==
    \E p \in Procs :
        /\ Done(p) /\ h[p].committed /\ "Send" \in h[p].faults
        /\ Result(p) = Ok(db[h[p].cmd[1].kind][h[p].agg[1].ID])
(***************************************************************************)
(* C13. For every command whose transaction commits, the handler invokes   *)
(* the deferred send function exactly once, after the commit, and never    *)
(* again: a committed invocation is either about to send, having sent      *)
(* nothing, or has returned, having sent once.                             *)
(***************************************************************************)
C13_SendExactlyOnceAfterCommit ==
    \A p \in Procs :
        h[p].committed =>
            \/ h[p].pc = "send" /\ h[p].sends = 0
            \/ Done(p) /\ h[p].sends = 1

\* the one send failed and the handler returned without another
C13_Witness ==
    \E p \in Procs :
        Done(p) /\ h[p].committed /\ h[p].sends = 1 /\ h[p].faults = {"Send"}

(***************************************************************************)
(* C14. The deferred send function is never invoked while the transaction  *)
(* that created its outbox row is open, and never at all when that         *)
(* transaction rolls back.                                                 *)
(***************************************************************************)
InTransaction(p) == h[p].pc \in {"txWrite", "txOutbox", "txCommit"} \/ h[p].tx.open

C14_NoSendBeforeCommit ==
    \A p \in Procs :
        /\ InTransaction(p) => h[p].sends = 0 /\ "Send" \notin h[p].calls
        /\ ~h[p].committed => h[p].sends = 0 /\ "Send" \notin h[p].calls

\* the outbox row was created and the commit failed: nothing was sent
C14_Witness ==
    \E p \in Procs :
        /\ Done(p) /\ "OutboxCreate" \in h[p].calls /\ h[p].faults = {"Commit"}
        /\ ~h[p].committed /\ h[p].sends = 0
(***************************************************************************)
(* C15. No two stored Attributes share a Slug; a CreateAttribute command   *)
(* whose Insert meets a stored attribute with its slug fails with          *)
(* ErrSlugAlreadyExists and stores nothing; of two CreateAttribute         *)
(* commands with the same slug, concurrent or not, at most one succeeds.   *)
(***************************************************************************)
\* another stored attribute has the slug of the attribute p built
SlugTaken(p) ==
    \E id \in DOMAIN db["attribute"] :
        id # h[p].agg[1].ID /\ db["attribute"][id].Slug = h[p].agg[1].Slug

C15_AttributeSlugIsUnique ==
    /\ \A i, j \in DOMAIN db["attribute"] :
          i # j => db["attribute"][i].Slug # db["attribute"][j].Slug
    /\ \A p \in Procs :
          (/\ Done(p) /\ IsCommand(p, "attribute", "create")
           /\ "Insert" \in h[p].calls /\ h[p].faults = {}
           /\ SlugTaken(p)) =>
              /\ Is(Result(p).err, "ErrSlugAlreadyExists")
              /\ ~h[p].committed
    /\ \A p, q \in Procs :
          (/\ p # q
           /\ IsCommand(p, "attribute", "create") /\ IsCommand(q, "attribute", "create")
           /\ h[p].cmd[1].in.Slug = h[q].cmd[1].in.Slug) =>
              ~(Succeeded(p) /\ Succeeded(q))

\* one CreateAttribute stored the slug and another, with its own ID, was refused
C15_Witness ==
    \E p, q \in Procs :
        /\ p # q /\ Succeeded(p) /\ Done(q)
        /\ IsCommand(p, "attribute", "create") /\ IsCommand(q, "attribute", "create")
        /\ h[q].agg # <<>> /\ h[q].agg[1].ID # h[p].agg[1].ID
        /\ Result(q) = Fail(Wrap("failed to insert attribute", ErrSlugAlreadyExists))
        /\ SlugTaken(q)
(***************************************************************************)
(* Claims about the domain packages.                                       *)
(***************************************************************************)
\* the caller holds an aggregate and the step is a call of one of its methods
MethodCall ==
    /\ subject.agg # <<>> /\ subject'.agg # <<>>
    /\ subject'.kind = subject.kind
    /\ subject'.op \in {"Update", "ChangeName", "Enable", "Disable", "IncrementVersion"}

\* C16: when Attribute.Update, Category.Update or Product.Update returns a
\* validation error, the aggregate it was called on has every field, ModifiedAt
\* included, as it was before the call.
C16_FailedUpdateLeavesAggregate ==
    [][(subject'.op = "Update" /\ subject'.err # NoErr)
            => MethodCall /\ subject'.agg = subject.agg]_vars

\* a Product.Update made after the product was built has failed, and ModifiedAt
\* is still the instant of the construction
C16_Witness ==
    /\ subject.kind = "product" /\ subject.op = "Update"
    /\ Is(subject.err, "ErrInvalidProductData")
    /\ subject.agg[1].ModifiedAt = started /\ subject.agg[1].Name = "n"

DistinctSlugs(options) ==
    \A i, j \in 1 .. Len(options) : i # j => options[i].Slug # options[j].Slug

BuildsAttribute == subject.kind = "attribute" /\ subject.op \in {"NewAttribute", "Update"}

C18_DomainOperationsKeepVersion ==
    [][MethodCall =>
            IF subject'.op = "IncrementVersion"
            THEN subject'.agg[1].Version = subject.agg[1].Version + 1
            ELSE subject'.agg[1].Version = subject.agg[1].Version]_vars

\* a category at Version 2 by IncrementVersion has been enabled since
C18_Witness ==
    /\ subject.kind = "category" /\ subject.op = "Enable"
    /\ subject.agg[1].Version = 2 /\ subject.agg[1].ModifiedAt = started + 1

(***************************************************************************)
(* Claims about the stored Version.                                        *)
(***************************************************************************)
\* the step commits the transaction of invocation p
Commits(p) == ~h[p].committed /\ h'[p].committed

\* C19: a document is stored first with Version 1; the Version of a stored document
\* never decreases; the commit of an Update raises the Version of its aggregate by
\* exactly one and every successful Update has committed; the store changes in no
\* other step, and an invocation that ends with an error has committed nothing.
C19_StoredVersionCounts ==
    [][/\ \A k \in Kinds :
            /\ \A id \in DOMAIN db'[k] \ DOMAIN db[k] : db'[k][id].Version = 1
            /\ \A id \in DOMAIN db[k] :
                    id \in DOMAIN db'[k] /\ db'[k][id].Version >= db[k][id].Version
       /\ \A p \in Procs :
            /\ (Commits(p) /\ h[p].cmd[1].op = "update") =>
                    /\ h[p].cmd[1].ID \in DOMAIN db[h[p].cmd[1].kind]
                    /\ db'[h[p].cmd[1].kind][h[p].cmd[1].ID].Version
                            = db[h[p].cmd[1].kind][h[p].cmd[1].ID].Version + 1
            /\ (h'[p].pc = "done" /\ h'[p].res[1].err = NoErr) => h'[p].committed
            /\ (h'[p].pc = "done" /\ h'[p].res[1].err # NoErr) => ~h'[p].committed
       /\ db' # db => \E p \in Procs : Commits(p)]_vars

\* category c1 is stored at Version 2, and an update that started when it was at
\* Version 2 has failed
C19_Witness ==
    /\ "c1" \in DOMAIN db["category"] /\ db["category"]["c1"].Version = 2
    /\ \E p \in Procs :
            /\ Done(p) /\ IsCommand(p, "category", "update")
            /\ Result(p).err # NoErr /\ h[p].base = 2

\* FindByID of invocation p answers in this step with an aggregate whose Version
\* is not the one the command expects
LoadsOtherVersion(p) ==
    /\ h[p].pc = "find" /\ h'[p].calls # h[p].calls
    /\ "FindByID" \notin h'[p].faults
    /\ h[p].cmd[1].ID \in DOMAIN db[h[p].cmd[1].kind]
    /\ db[h[p].cmd[1].kind][h[p].cmd[1].ID].Version # h[p].cmd[1].Version

\* C20: an Update command whose expected Version differs from the Version of the
\* aggregate FindByID loaded ends at once with ErrOptimisticLocking: no transaction
\* is opened, repo.Update and outbox.Create are not called, nothing is stored.
C20_VersionMismatchIsConflict ==
    [][\A p \in Procs :
            LoadsOtherVersion(p) =>
                /\ h'[p].pc = "done"
                /\ h'[p].res[1] = Fail(ErrOptimisticLocking)
                /\ h'[p].calls = {"FindByID"}
                /\ ~h'[p].committed /\ h'[p].tx = NoTx
                /\ db' = db /\ outbox' = outbox]_vars

\* an update of product p1 expecting Version 2 found it at Version 1 and ended with
\* the conflict after the one call of FindByID
C20_Witness ==
    \E p \in Procs :
        /\ Done(p) /\ IsCommand(p, "product", "update")
        /\ h[p].cmd[1].Version = 2 /\ h[p].base = 1
        /\ "p1" \in DOMAIN db["product"] /\ db["product"]["p1"].Version = 1
        /\ h[p].calls = {"FindByID"} /\ h[p].faults = {}
        /\ Result(p) = Fail(ErrOptimisticLocking)

(***************************************************************************)
(* Claims about the snapshots a category holds.                            *)
(***************************************************************************)
\* every CategoryAttribute of category c carries the Slug of the stored attribute
\* it names (a Slug never changes once stored)
CarriesSlugs(c) ==
    \A i \in 1 .. Len(c.Attributes) :
        /\ c.Attributes[i].AttributeID \in DOMAIN db["attribute"]
        /\ c.Attributes[i].Slug = db["attribute"][c.Attributes[i].AttributeID].Slug

\* C21: after a successful CreateCategory every CategoryAttribute of the created
\* category carries as Slug the slug of the attribute that reference resolution
\* found for its AttributeID.
C21_AsStated ==
    \A p \in Procs :
        (IsCommand(p, "category", "create") /\ Succeeded(p)) => CarriesSlugs(Result(p).val[1])

(***************************************************************************)
(* Claims about the order of the product validation.                       *)
(***************************************************************************)
\* the conditions in the order stated, each with the message of its failure
ProductConditions(in) ==
    << <<in.Name # "", "name is required">>,
       <<Len(in.Name) <= MaxProductName, "name is too long (max 255 characters)">>,
       <<in.Price >= 0, "price must be positive">>,
       <<in.Quantity >= 0, "quantity cannot be negative">>,
       <<in.Enabled => in.Price > 0, "cannot enable product with price <= 0">>,
       <<in.Enabled => in.Quantity > 0, "cannot enable product with quantity <= 0">>,
       <<in.Enabled => in.ImageID # Null, "cannot enable product without imageID">>,
       <<in.Enabled => in.CategoryID # Null, "cannot enable product without categoryID">> >>

Failing(in) == {i \in 1 .. Len(ProductConditions(in)) : ~ProductConditions(in)[i][1]}

FirstFailing(in) ==
    IF Failing(in) = {} THEN NoErr
    ELSE InvalidProduct(
            ProductConditions(in)[CHOOSE i \in Failing(in) : \A j \in Failing(in) : i <= j][2])

\* C22: NewProduct, NewProductWithID and Update check the name, then price >= 0,
\* then quantity >= 0 and, only when enabled, price, quantity, imageID and
\* categoryID in this order; the error returned is the one of the first condition
\* in this order that fails, and there is none when all hold.
C22_FirstFailingConditionIsReported ==
    subject.op \in {"NewProduct", "NewProductWithID", "Update"}
        => subject.err = FirstFailing(subject.in)

\* an enabled product with no stock, no image and no category was refused for its
\* quantity, the first of the three
C22_Witness ==
    /\ subject.op = "Update"
    /\ Cardinality(Failing(subject.in)) = 3
    /\ subject.in.Enabled /\ subject.in.Quantity = 0
    /\ subject.err = InvalidProduct("cannot enable product with quantity <= 0")

(***************************************************************************)
(* Claims about the cancellation of the request context.                   *)
(***************************************************************************)
\* the committed outbox has a row with the aggregate invocation p holds as payload
HasRowOf(p) == \E i \in 1 .. Len(outbox) : outbox[i].Payload = h[p].agg[1]

\* C23: an invocation whose context was cancelled before its transaction committed,
\* while it was open included, commits neither the aggregate write nor the outbox
\* row: the store and the outbox change in none of its steps; when the context is
\* cancelled after the commit, the aggregate and the outbox row stay stored.
C23_CancellationAbortsOrKeeps ==
    [][\A p \in Procs :
            /\ (h[p].cancelled = "early" /\ h'[p] # h[p]) =>
                    /\ db' = db /\ outbox' = outbox
                    /\ ~h'[p].committed
                    /\ h'[p].pc # "idle" => h'[p].cancelled = "early"
                    /\ h'[p].pc = "done" => h'[p].res[1].err # NoErr
            /\ h'[p].cancelled = "late" =>
                    /\ h'[p].committed
                    /\ h'[p].agg[1].ID \in DOMAIN db'[h'[p].cmd[1].kind]
                    /\ db'[h'[p].cmd[1].kind][h'[p].agg[1].ID].Version >= h'[p].agg[1].Version
                    /\ \E i \in 1 .. Len(outbox') : outbox'[i].Payload = h'[p].agg[1]]_vars

\* one invocation was cancelled between outbox.Create and the commit and ended with
\* an error, its aggregate not stored; another was cancelled after its commit and
\* returned its aggregate, which is stored with its outbox row
C23_Witness ==
    \E p, q \in Procs :
        /\ Done(p) /\ h[p].cancelled = "early" /\ h[p].faults = {"Commit"}
        /\ "OutboxCreate" \in h[p].calls /\ Result(p).err # NoErr
        /\ IsCommand(p, "product", "create") /\ DOMAIN db["product"] = {}
        /\ Done(q) /\ h[q].cancelled = "late" /\ Succeeded(q)
        /\ IsCommand(q, "category", "create")
        /\ db["category"][h[q].agg[1].ID] = h[q].agg[1] /\ HasRowOf(q)

(***************************************************************************)
(* Claims about the version pre-check.                                     *)
(***************************************************************************)
\* repo.Update of invocation p answers in this step
UpdateAnswers(p) ==
    /\ h[p].pc = "txWrite" /\ h[p].cmd[1].op = "update"
    /\ "Update" \in h'[p].calls /\ "Update" \notin h'[p].faults

AttributesStored(a) ==
    \A i \in 1 .. Len(a.Attributes) : a.Attributes[i].AttributeID \in DOMAIN db["attribute"]

\* C25: in every reachable state, under any interleaving of Create and Update
\* commands, the CategoryID of a stored product is nil or names a stored category,
\* and every AttributeID a stored product or category holds names a stored
\* attribute.
C25_StoredReferencesResolve ==
    /\ \A id \in DOMAIN db["product"] :
            /\ db["product"][id].CategoryID # Null
                    => db["product"][id].CategoryID \in DOMAIN db["category"]
            /\ AttributesStored(db["product"][id])
    /\ \A id \in DOMAIN db["category"] : AttributesStored(db["category"][id])

\* a stored product names the stored category c1 and the stored attribute a1, which
\* category c1 holds too
C25_Witness ==
    /\ \E id \in DOMAIN db["product"] :
            /\ db["product"][id].CategoryID = "c1"
            /\ Len(db["product"][id].Attributes) = 1
            /\ db["product"][id].Attributes[1].AttributeID = "a1"
    /\ "c1" \in DOMAIN db["category"] /\ "a1" \in DOMAIN db["attribute"]

(***************************************************************************)
(* Claims about the outbox rows of an aggregate.                           *)
(***************************************************************************)
\* the number of rows of the aggregate among the first i rows of the outbox
RowsUpTo(kind, id, i) == Cardinality({j \in RowsOf(kind, id) : j <= i})

\* C26: the outbox rows keyed by an aggregate's ID carry, in commit order, the
\* payload Versions 1, 2, 3, ... without gap or repeat, and the last of them the
\* stored Version: a row's payload Version is the aggregate's stored Version once
\* the transaction that wrote the row has committed.
C26_RowsCountTheVersions ==
    \A kind \in Kinds :
        /\ \A i \in 1 .. Len(outbox) :
                KindOfEvent(outbox[i].EventType) = kind
                    => /\ outbox[i].Key \in DOMAIN db[kind]
                       /\ outbox[i].Payload.Version = RowsUpTo(kind, outbox[i].Key, i)
        /\ \A id \in DOMAIN db[kind] :
                db[kind][id].Version = Cardinality(RowsOf(kind, id))

\* attribute a1 has the rows of its creation and of two updates, of Versions 1, 2, 3
C26_Witness ==
    /\ "a1" \in DOMAIN db["attribute"] /\ db["attribute"]["a1"].Version = 3
    /\ Len(outbox) = 3
    /\ \A i \in 1 .. 3 :
            /\ outbox[i].Key = "a1" /\ outbox[i].EventType = "AttributeUpdated"
            /\ outbox[i].Payload.Version = i

(***************************************************************************)
(* Claims about repeated Create commands.                                  *)
(***************************************************************************)
\* the committed rows that announce the creation of the aggregate: its Version 1
CreationRows(kind, id) == {i \in RowsOf(kind, id) : outbox[i].Payload.Version = 1}

\* invocations p and q execute Create commands of one kind with one supplied ID
SameCreate(p, q) ==
    /\ p # q /\ Done(p) /\ Done(q)
    /\ h[p].cmd[1].op = "create" /\ h[q].cmd[1].op = "create"
    /\ h[p].cmd[1].kind = h[q].cmd[1].kind
    /\ h[p].cmd[1].ID # Null /\ h[p].cmd[1].ID = h[q].cmd[1].ID

\* C27: of the executions of Create commands with one supplied ID, one after the
\* other or concurrent, at most one succeeds: a Create commits only an ID that is
\* not stored, and every stored aggregate has exactly one outbox row of its
\* creation.
C27_OneCreatePerID ==
    [][/\ \A p \in Procs :
            (Commits(p) /\ h[p].cmd[1].op = "create")
                => h[p].agg[1].ID \notin DOMAIN db[h[p].cmd[1].kind]
       /\ \A p, q \in Procs :
            (h'[p].pc = "done" /\ h'[q].pc = "done" /\ p # q
                /\ h'[p].cmd[1].op = "create" /\ h'[q].cmd[1].op = "create"
                /\ h'[p].cmd[1].kind = h'[q].cmd[1].kind
                /\ h'[p].cmd[1].ID # Null /\ h'[p].cmd[1].ID = h'[q].cmd[1].ID)
                => h'[p].res[1].err # NoErr \/ h'[q].res[1].err # NoErr
       /\ \A kind \in Kinds : \A id \in DOMAIN db[kind] :
            Cardinality(CreationRows(kind, id)) = 1]_vars

\* CreateProduct with ID p1 was executed twice: one execution returned the product,
\* the other failed at repo.Insert; one product and one row are stored
C27_Witness ==
    \E p, q \in Procs :
        /\ SameCreate(p, q) /\ IsCommand(p, "product", "create")
        /\ Succeeded(p) /\ Result(q).err # NoErr
        /\ "Insert" \in h[q].calls /\ h[q].faults = {}
        /\ DOMAIN db["product"] = {"p1"} /\ Cardinality(RowsOf("product", "p1")) = 1

(***************************************************************************)
(* Claims about FindByIDsOrFail.                                           *)
(***************************************************************************)
\* the elements of the list ids that are not stored attributes
Absent(ids) == {i \in 1 .. Len(ids) : ids[i] \notin DOMAIN db["attribute"]}

\* C28 as stated: FindByIDsOrFail(ids) returns an error only if an element of ids is
\* not stored, the error then names the first such element of ids, and it succeeds
\* for every list all of whose elements are stored.
C28_AsStated ==
    subject.op = "FindByIDsOrFail" =>
        IF Absent(subject.ids) = {} THEN subject.err = NoErr
        ELSE subject.err =
                AttributeNotFound(subject.ids[CHOOSE i \in Absent(subject.ids) :
                                                \A j \in Absent(subject.ids) : i <= j])

(***************************************************************************)
(* Claims about the order of the checks of an update handler.              *)
(***************************************************************************)
\* invocation p ended an UpdateProduct that, from its start to its end, expected
\* another Version than the stored one and named a category that is not stored;
\* no collaborator failed
StaleAndDangling(p) ==
    /\ Done(p) /\ IsCommand(p, "product", "update") /\ h[p].faults = {}
    /\ h[p].cmd[1].ID \in DOMAIN db["product"]
    /\ h[p].base = db["product"][h[p].cmd[1].ID].Version
    /\ h[p].base # h[p].cmd[1].Version
    /\ h[p].cmd[1].in.CategoryID # Null
    /\ h[p].cmd[1].in.CategoryID \notin DOMAIN db["category"]

\* C29 as stated: update handlers resolve the references before the version
\* pre-check: an UpdateProduct that names a CategoryID that does not exist and
\* carries a stale expected Version fails with CategoryNotFound.
C29_AsStated ==
    \A p \in Procs : StaleAndDangling(p) => Is(Result(p).err, "ErrCategoryNotFound")

(***************************************************************************)
(* Claims about the duplicate-slug error of CreateAttribute.               *)
(***************************************************************************)
\* C30 as stated: a CreateAttribute command fails with ErrSlugAlreadyExists only if
\* some stored attribute has the Slug of the command; a collision on a supplied ID
\* alone, with a slug no stored attribute uses, is not reported as a duplicate slug.
C30_AsStated ==
    \A p \in Procs :
        (/\ Done(p) /\ IsCommand(p, "attribute", "create")
         /\ Is(Result(p).err, "ErrSlugAlreadyExists")) =>
            \E id \in DOMAIN db["attribute"] :
                db["attribute"][id].Slug = h[p].cmd[1].in.Slug

====
